---- MODULE Spec2Model ----
(***************************************************************************)
(* LawVisor risk engine (backend/core/risk_engine.py).                     *)
(*                                                                         *)
(* RiskEngine.calculate_risk_report turns a list of extracted clauses and  *)
(* a list of compliance analyses into a ContractRiskReport.  The Python    *)
(* code computes with floats; here every float is an exact rational        *)
(* [n |-> numerator, d |-> denominator], d > 0, in lowest terms, so the    *)
(* arithmetic below is the arithmetic of the code without IEEE rounding.   *)
(***************************************************************************)
EXTENDS Integers, Sequences, FiniteSets, TLC

\* clauses, analyses: the arguments of calculate_risk_report
\* hash_seed:         the string hash seed of the running Python process
\* report:            the ContractRiskReport of the latest run, or None
\* previous:          what a re-analysis replaced (the analysis and the
\*                    overall score reported before it), or None
\* rag:               the running call of RAGEngine.analyze_clauses
\* store:             DOCUMENT_STORE of api/upload.py
\* requests:          the HTTP requests, each with its place in its handler
VARIABLES clauses, analyses, hash_seed, report, previous,
          rag, store, requests

vars == <<clauses, analyses, hash_seed, report, previous,
          rag, store, requests>>

\* the state of the service around the risk engine
serviceVars == <<rag, store, requests>>

(***************************************************************************)
(* Bounds of the model.                                                    *)
(***************************************************************************)
MaxClauses == 2

\* clauses of a whole contract: one more than top_risks keeps and than a
\* batch of analyze_clauses holds
MaxContractClauses == 6

\* requests made to the service in one behaviour
MaxRequests == 3

(***************************************************************************)
(* Exact rational arithmetic standing for Python's float operators.        *)
(***************************************************************************)
Abs(x) == IF x < 0 THEN -x ELSE x

RECURSIVE Gcd(_, _)
Gcd(a, b) == IF b = 0 THEN a ELSE Gcd(b, a % b)

Rat(n, d) ==
    LET g == Gcd(Abs(n), d)
    IN  [n |-> n \div g, d |-> d \div g]

Int2Rat(i) == [n |-> i, d |-> 1]

Lcm(a, b) == (a \div Gcd(a, b)) * b

RatAdd(a, b) ==
    LET l == Lcm(a.d, b.d)
    IN  Rat(a.n * (l \div a.d) + b.n * (l \div b.d), l)

RatNeg(a) == [n |-> -a.n, d |-> a.d]

RatSub(a, b) == RatAdd(a, RatNeg(b))

RatMul(a, b) ==
    LET g1 == Gcd(Abs(a.n), b.d)
        g2 == Gcd(Abs(b.n), a.d)
    IN  Rat((a.n \div g1) * (b.n \div g2), (a.d \div g2) * (b.d \div g1))

\* a / b for b > 0 (the code divides only by quantities it has tested > 0)
RatDiv(a, b) == RatMul(a, [n |-> b.d, d |-> b.n])

RatLess(a, b) ==
    LET l == Lcm(a.d, b.d)
    IN  a.n * (l \div a.d) < b.n * (l \div b.d)

RatLeq(a, b) == ~RatLess(b, a)

RatMin(a, b) == IF RatLess(b, a) THEN b ELSE a

RatMax(a, b) == IF RatLess(a, b) THEN b ELSE a

RECURSIVE RatSum(_)
RatSum(s) == IF s = <<>> THEN Int2Rat(0) ELSE RatAdd(Head(s), RatSum(Tail(s)))

RECURSIVE RatMaxSeq(_)
RatMaxSeq(s) ==
    IF Len(s) = 1 THEN s[1] ELSE RatMax(s[1], RatMaxSeq(Tail(s)))

Count(s, P(_)) == Cardinality({i \in DOMAIN s : P(s[i])})

MapSeq(s, F(_)) ==
    LET map[k \in 0..Len(s)] ==
            IF k = 0 THEN <<>> ELSE Append(map[k - 1], F(s[k]))
    IN  map[Len(s)]

(***************************************************************************)
(* Static tables.                                                          *)
(***************************************************************************)
\* multipliers in tenths: 15 is 1.5
CLAUSE_TYPE_WEIGHTS ==
    [data_protection |-> 15, liability |-> 14, indemnification |-> 14,
     confidentiality |-> 13, intellectual_property |-> 13,
     jurisdiction |-> 12, termination |-> 12, dispute_resolution |-> 11,
     warranties |-> 11, payment_terms |-> 10, force_majeure |-> 10,
     governing_law |-> 10, amendment |-> 9, assignment |-> 9,
     severability |-> 8, notices |-> 8, entire_agreement |-> 7,
     counterparts |-> 5, unknown |-> 10]

CATEGORY_DISPLAY_NAMES ==
    [data_protection |-> "Data Protection & Privacy",
     liability |-> "Liability & Risk Allocation",
     indemnification |-> "Indemnification",
     confidentiality |-> "Confidentiality",
     intellectual_property |-> "Intellectual Property",
     jurisdiction |-> "Jurisdiction & Venue",
     termination |-> "Termination Rights",
     dispute_resolution |-> "Dispute Resolution",
     warranties |-> "Warranties & Representations",
     payment_terms |-> "Payment Terms",
     force_majeure |-> "Force Majeure",
     governing_law |-> "Governing Law",
     amendment |-> "Amendment Provisions",
     assignment |-> "Assignment Rights",
     severability |-> "Severability",
     notices |-> "Notices",
     entire_agreement |-> "Entire Agreement",
     counterparts |-> "Counterparts",
     unknown |-> "Other Provisions"]

\* faulty variant: a clause type without a row weighs nothing
clause_weights_get_zero(clause_type) ==
    IF clause_type \in DOMAIN CLAUSE_TYPE_WEIGHTS
    THEN Rat(CLAUSE_TYPE_WEIGHTS[clause_type], 10)
    ELSE Int2Rat(0)

\* self.clause_weights.get(clause_type, 1.0)
clause_weights_get(clause_type) ==
    IF clause_type \in DOMAIN CLAUSE_TYPE_WEIGHTS
    THEN Rat(CLAUSE_TYPE_WEIGHTS[clause_type], 10)
    ELSE Int2Rat(1)

\* self.category_names.get(category, category)
category_names_get(category) ==
    IF category \in DOMAIN CATEGORY_DISPLAY_NAMES
    THEN CATEGORY_DISPLAY_NAMES[category]
    ELSE category

(***************************************************************************)
(* RiskEngine._score_to_level                                              *)
(***************************************************************************)
\* faulty variant: the thresholds taken as exclusive lower bounds
_score_to_level_exclusive(score) ==
    IF RatLess(Int2Rat(80), score) THEN "critical"
    ELSE IF RatLess(Int2Rat(60), score) THEN "high"
    ELSE IF RatLess(Int2Rat(40), score) THEN "medium"
    ELSE IF RatLess(Int2Rat(20), score) THEN "low"
    ELSE "minimal"

\* faulty variant: "low" as the lowest level, as in test_score_to_level_mapping
_score_to_level_low_floor(score) ==
    IF RatLeq(Int2Rat(80), score) THEN "critical"
    ELSE IF RatLeq(Int2Rat(60), score) THEN "high"
    ELSE IF RatLeq(Int2Rat(40), score) THEN "medium"
    ELSE "low"

_score_to_level(score) ==
    IF RatLeq(Int2Rat(80), score) THEN "critical"
    ELSE IF RatLeq(Int2Rat(60), score) THEN "high"
    ELSE IF RatLeq(Int2Rat(40), score) THEN "medium"
    ELSE IF RatLeq(Int2Rat(20), score) THEN "low"
    ELSE "minimal"

\* faulty variant: the level "medium" counted as high risk
IsHighRiskOrMedium(r) == r.risk_level \in {"critical", "high", "medium"}

IsHighRisk(r) == r.risk_level \in {"critical", "high"}

(***************************************************************************)
(* RiskEngine._calculate_clause_risks                                      *)
(***************************************************************************)
None == [none |-> TRUE]

\* faulty variant: the first analysis of a clause id kept
analysis_map_get_first(anls, clause_id) ==
    LET hits == {i \in DOMAIN anls : anls[i].clause_id = clause_id}
    IN  IF hits = {} THEN None
        ELSE anls[CHOOSE i \in hits : \A j \in hits : i <= j]

\* analysis_map = {a.clause_id: a for a in analyses}; analysis_map.get(id):
\* a later analysis with the same clause id replaces an earlier one
analysis_map_get(anls, clause_id) ==
    LET hits == {i \in DOMAIN anls : anls[i].clause_id = clause_id}
    IN  IF hits = {} THEN None
        ELSE anls[CHOOSE i \in hits : \A j \in hits : j <= i]

\* faulty variant: the confidence added unscaled
ConfidenceFactorUnscaled(confidence) == RatAdd(Rat(1, 2), confidence)

\* confidence_factor = 0.5 + (analysis.confidence * 0.5)
ConfidenceFactor(confidence) ==
    RatAdd(Rat(1, 2), RatMul(confidence, Rat(1, 2)))

\* clause.raw_text[:300] + "...", a text being the sequence of its characters
TextPreview(raw_text) ==
    SubSeq(raw_text, 1, IF Len(raw_text) < 300 THEN Len(raw_text) ELSE 300)
        \o << ".", ".", "." >>

\* the body of the "if analysis:" branch (clause_title, a copy of
\* clause.title, is left out of the modelled ClauseRisk)
AnalysedClauseRisk(clause, analysis) ==
    LET base_score == analysis.risk_score
        weight == clause_weights_get(clause.clause_type)
        weighted_score == RatMin(Int2Rat(100), RatMul(base_score, weight))
        confidence_factor == ConfidenceFactor(analysis.confidence)
        final_score == RatMul(weighted_score, confidence_factor)
    IN  [clause_id |-> clause.clause_id,
         clause_type |-> clause.clause_type,
         clause_text_preview |-> TextPreview(clause.raw_text),
         risk_score |-> final_score,
         risk_level |-> _score_to_level(final_score),
         contributing_factors |->
            << [factor |-> "Base Compliance Score", value |-> base_score],
               [factor |-> "Clause Type Weight", value |-> weight],
               [factor |-> "Confidence Factor", value |-> confidence_factor] >>,
         violated_regulations |-> analysis.violated_regulations,
         recommendations |-> analysis.recommendations,
         explanation |-> analysis.explanation,
         confidence |-> analysis.confidence]

\* faulty variant: a clause without analysis counted as free of risk
DefaultClauseRiskZero(clause) ==
    [clause_id |-> clause.clause_id,
     clause_type |-> clause.clause_type,
     clause_text_preview |-> TextPreview(clause.raw_text),
     risk_score |-> Int2Rat(0),
     risk_level |-> "minimal",
     contributing_factors |->
        << [factor |-> "Missing Analysis", value |-> Int2Rat(0)] >>,
     violated_regulations |-> <<>>,
     recommendations |-> << "Manual review recommended" >>,
     explanation |-> "Compliance analysis not available for this clause.",
     confidence |-> Int2Rat(0)]

\* the body of the "else:" branch
DefaultClauseRisk(clause) ==
    [clause_id |-> clause.clause_id,
     clause_type |-> clause.clause_type,
     clause_text_preview |-> TextPreview(clause.raw_text),
     risk_score |-> Int2Rat(50),
     risk_level |-> "medium",
     contributing_factors |->
        << [factor |-> "Missing Analysis", value |-> Int2Rat(50)] >>,
     violated_regulations |-> <<>>,
     recommendations |-> << "Manual review recommended" >>,
     explanation |-> "Compliance analysis not available for this clause.",
     confidence |-> Int2Rat(0)]

\* faulty variant: an analysis of confidence 0 (the error analysis) taken
\* for a missing one
_calculate_clause_risks_errors_dropped(cls, anls) ==
    LET ClauseRisk(clause) ==
            LET analysis == analysis_map_get(anls, clause.clause_id)
            IN  IF analysis # None /\ analysis.confidence # Int2Rat(0)
                THEN AnalysedClauseRisk(clause, analysis)
                ELSE DefaultClauseRisk(clause)
    IN  MapSeq(cls, ClauseRisk)

_calculate_clause_risks(cls, anls) ==
    LET ClauseRisk(clause) ==
            LET analysis == analysis_map_get(anls, clause.clause_id)
            IN  IF analysis # None
                THEN AnalysedClauseRisk(clause, analysis)
                ELSE DefaultClauseRisk(clause)
    IN  MapSeq(cls, ClauseRisk)

(***************************************************************************)
(* Python built-ins used by the aggregation steps.                         *)
(***************************************************************************)
\* faulty variant: an unstable sort, equal keys come out in reverse order
RECURSIVE InsertByScoreTiesFirst(_, _)
InsertByScoreTiesFirst(sorted, r) ==
    IF sorted = <<>> THEN <<r>>
    ELSE IF RatLeq(Head(sorted).risk_score, r.risk_score)
         THEN <<r>> \o sorted
         ELSE <<Head(sorted)>> \o InsertByScoreTiesFirst(Tail(sorted), r)

\* sorted(risks, key=lambda r: r.risk_score, reverse=True): stable, equal
\* keys keep their input order
RECURSIVE InsertByScore(_, _)
InsertByScore(sorted, r) ==
    IF sorted = <<>> THEN <<r>>
    ELSE IF RatLess(Head(sorted).risk_score, r.risk_score)
         THEN <<r>> \o sorted
         ELSE <<Head(sorted)>> \o InsertByScore(Tail(sorted), r)

RECURSIVE SortedByScoreDesc(_)
SortedByScoreDesc(s) ==
    IF s = <<>> THEN <<>>
    ELSE InsertByScore(SortedByScoreDesc(SubSeq(s, 1, Len(s) - 1)), s[Len(s)])

\* s[:k]
Take(s, k) == SubSeq(s, 1, IF Len(s) < k THEN Len(s) ELSE k)

RECURSIVE Flatten(_)
Flatten(ss) == IF ss = <<>> THEN <<>> ELSE Head(ss) \o Flatten(Tail(ss))

Range(s) == {s[i] : i \in DOMAIN s}

\* list(set(xs)): the elements of xs, once each, in the iteration order of
\* a set of str, which is fixed by the string hash seed of the process
ListOfSet(xs, seed) ==
    LET InXs(x) == x \in Range(xs)
    IN  SelectSeq(seed, InXs)

(***************************************************************************)
(* round(x, 2) and the ":.0f" format: round half to even, on the exact     *)
(* value (Python rounds the binary float, which can fall on the other side *)
(* of a decimal tie).                                                      *)
(***************************************************************************)
RoundHalfEven(x) ==
    LET fl == x.n \div x.d
        rem == x.n % x.d
    IN  IF 2 * rem < x.d THEN fl
        ELSE IF 2 * rem > x.d THEN fl + 1
        ELSE IF fl % 2 = 0 THEN fl ELSE fl + 1

Round2(x) == Rat(RoundHalfEven(RatMul(x, Int2Rat(100))), 100)

(***************************************************************************)
(* RiskEngine._aggregate_by_category                                       *)
(***************************************************************************)
\* the keys of the dict "categories", in insertion order
RECURSIVE CategoryKeys(_)
CategoryKeys(clause_risks) ==
    IF clause_risks = <<>> THEN <<>>
    ELSE LET front == SubSeq(clause_risks, 1, Len(clause_risks) - 1)
             keys == CategoryKeys(front)
             cat == clause_risks[Len(clause_risks)].clause_type
         IN  IF cat \in Range(keys) THEN keys ELSE Append(keys, cat)

WeightOf(r) == clause_weights_get(r.clause_type)

WeightedScoreOf(r) == RatMul(r.risk_score, WeightOf(r))

\* faulty variant: the plain mean of the scores
UnweightedAverage(risks) ==
    LET Score(r) == r.risk_score
    IN  IF risks = <<>> THEN Int2Rat(0)
        ELSE RatDiv(RatSum(MapSeq(risks, Score)), Int2Rat(Len(risks)))

\* faulty variant: the weighted sum divided by the number of clauses
WeightedAverageByCount(risks) ==
    LET weighted_sum == RatSum(MapSeq(risks, WeightedScoreOf))
    IN  IF risks = <<>> THEN Int2Rat(0)
        ELSE RatDiv(weighted_sum, Int2Rat(Len(risks)))

\* sum(r.risk_score * w(r)) / sum(w(r)) if sum(w(r)) > 0 else 0
WeightedAverage(risks) ==
    LET total_weight == RatSum(MapSeq(risks, WeightOf))
        weighted_sum == RatSum(MapSeq(risks, WeightedScoreOf))
    IN  IF RatLess(Int2Rat(0), total_weight)
        THEN RatDiv(weighted_sum, total_weight)
        ELSE Int2Rat(0)

\* Python's None where a list of str is expected (the JSON null of an LLM
\* answer): the sequence of the reserved name "None", which no regulation
\* bears, so that it compares with the lists
NoneList == << "None" >>

\* r.violated_regulations[:2] under "if r.violated_regulations:"; None is
\* falsy, as the empty list is
FirstTwoViolations(r) ==
    IF r.violated_regulations = NoneList THEN <<>>
    ELSE Take(r.violated_regulations, 2)

TopIssues(risks, seed) ==
    LET top3 == Take(SortedByScoreDesc(risks), 3)
        top_issues == Flatten(MapSeq(top3, FirstTwoViolations))
    IN  Take(ListOfSet(top_issues, seed), 5)

CategoryRisk(category, risks, seed) ==
    LET avg_score == WeightedAverage(risks)
    IN  [category |-> category,
         category_display |-> category_names_get(category),
         risk_score |-> avg_score,
         risk_level |-> _score_to_level(avg_score),
         clause_count |-> Len(risks),
         high_risk_clauses |-> Count(risks, IsHighRisk),
         top_issues |-> TopIssues(risks, seed),
         clauses |-> risks]

\* faulty variant: "categories[cat] = [risk]" in place of the append, every
\* category keeps its last clause only
_aggregate_by_category_last_only(clause_risks, seed) ==
    LET keys == CategoryKeys(clause_risks)
        Aggregate(category) ==
            LET InCategory(r) == r.clause_type = category
                risks == SelectSeq(clause_risks, InCategory)
            IN  CategoryRisk(category, <<risks[Len(risks)]>>, seed)
    IN  SortedByScoreDesc(MapSeq(keys, Aggregate))

\* faulty variant: the categories left in the order of the dict
_aggregate_by_category_unsorted(clause_risks, seed) ==
    LET keys == CategoryKeys(clause_risks)
        Aggregate(category) ==
            LET InCategory(r) == r.clause_type = category
            IN  CategoryRisk(category, SelectSeq(clause_risks, InCategory),
                             seed)
    IN  MapSeq(keys, Aggregate)

_aggregate_by_category(clause_risks, seed) ==
    LET keys == CategoryKeys(clause_risks)
        Aggregate(category) ==
            LET InCategory(r) == r.clause_type = category
            IN  CategoryRisk(category, SelectSeq(clause_risks, InCategory),
                             seed)
    IN  SortedByScoreDesc(MapSeq(keys, Aggregate))

(***************************************************************************)
(* RiskEngine._calculate_overall_score                                     *)
(***************************************************************************)
EmptyBreakdown == [empty |-> TRUE]

\* faulty variant: the penalty weighted 0.9 instead of 0.3
MaxPenaltyHeavy(max_risk, weighted_avg) ==
    IF RatLess(weighted_avg, max_risk)
    THEN RatMul(RatSub(max_risk, weighted_avg), Rat(9, 10))
    ELSE Int2Rat(0)

\* faulty variant: the factor 0.3 left out
MaxPenaltyFull(max_risk, weighted_avg) ==
    IF RatLess(weighted_avg, max_risk)
    THEN RatSub(max_risk, weighted_avg)
    ELSE Int2Rat(0)

\* (max_risk - weighted_avg) * 0.3 if max_risk > weighted_avg else 0
MaxPenalty(max_risk, weighted_avg) ==
    IF RatLess(weighted_avg, max_risk)
    THEN RatMul(RatSub(max_risk, weighted_avg), Rat(3, 10))
    ELSE Int2Rat(0)

_calculate_overall_score(clause_risks) ==
    IF clause_risks = <<>>
    THEN [overall |-> Int2Rat(0), breakdown |-> EmptyBreakdown]
    ELSE
    LET weighted_avg == WeightedAverage(clause_risks)
        Score(r) == r.risk_score
        max_risk == RatMaxSeq(MapSeq(clause_risks, Score))
        max_penalty == MaxPenalty(max_risk, weighted_avg)
        high_risk_count == Count(clause_risks, IsHighRisk)
        density == Rat(high_risk_count, Len(clause_risks))
        density_penalty == RatMul(density, Int2Rat(20))
        combined ==
            RatAdd(RatAdd(RatMul(weighted_avg, Rat(6, 10)), max_penalty),
                   density_penalty)
        overall == RatMin(Int2Rat(100), RatMax(Int2Rat(0), combined))
    IN  [overall |-> overall,
         breakdown |->
            [weighted_average |->
                [value |-> Round2(weighted_avg),
                 weight |-> Rat(6, 10),
                 contribution |-> Round2(RatMul(weighted_avg, Rat(6, 10)))],
             max_risk_penalty |->
                [max_clause_score |-> Round2(max_risk),
                 penalty |-> Round2(max_penalty)],
             high_risk_density |->
                [high_risk_count |-> high_risk_count,
                 total_clauses |-> Len(clause_risks),
                 density |-> Round2(density),
                 penalty |-> Round2(density_penalty)]]]

(***************************************************************************)
(* RiskEngine._generate_summary: the summary string, as its parts          *)
(***************************************************************************)
level_descriptions ==
    [critical |-> "requires immediate attention",
     high |-> "contains significant compliance concerns",
     medium |-> "has moderate compliance issues that should be addressed",
     low |-> "has minor issues that may warrant review",
     minimal |->
        "appears to be well-structured with minimal compliance concerns"]

\* the exception all_violations.extend(None) raises
TypeError == [raised |-> "TypeError"]

_generate_summary(overall_score, overall_level, category_risks, top_risks, seed) ==
    LET high_risk_categories == SelectSeq(category_risks, IsHighRisk)
        Display(c) == c.category_display
        Violations(r) == r.violated_regulations
        NoList(r) == r.violated_regulations = NoneList
        all_violations == Flatten(MapSeq(top_risks, Violations))
    IN  IF SelectSeq(top_risks, NoList) # <<>> THEN TypeError ELSE
        [score |-> RoundHalfEven(overall_score),
         level |-> overall_level,
         description |-> level_descriptions[overall_level],
         cat_names |-> MapSeq(Take(high_risk_categories, 3), Display),
         unique_violations |-> Take(ListOfSet(all_violations, seed), 3)]

(***************************************************************************)
(* RiskEngine._collect_citations                                           *)
(***************************************************************************)
\* the dict appended for a regulation
Citation(reg) ==
    [regulation_id |-> reg.regulation_id,
     title |-> reg.title,
     source_url |-> reg.source_url,
     regulation_type |-> reg.regulation_type]

\* the loop body: "if reg.regulation_id not in seen_ids", seen_ids being
\* the ids of the citations appended so far
RECURSIVE CollectRegs(_, _)
CollectRegs(regs, citations) ==
    IF regs = <<>> THEN citations
    ELSE LET SameId(c) == c.regulation_id = Head(regs).regulation_id
         IN  CollectRegs(Tail(regs),
                         IF SelectSeq(citations, SameId) = <<>>
                         THEN Append(citations, Citation(Head(regs)))
                         ELSE citations)

\* faulty variant: seen_ids set up anew for every analysis
_collect_citations_per_analysis(anls) ==
    LET Collected(a) == CollectRegs(a.matched_regulations, <<>>)
    IN  Flatten(MapSeq(anls, Collected))

_collect_citations(anls) ==
    LET Matched(a) == a.matched_regulations
    IN  CollectRegs(Flatten(MapSeq(anls, Matched)), <<>>)

(***************************************************************************)
(* RiskEngine.calculate_risk_report (analyzed_at, the wall-clock time of   *)
(* the run, and document_id are not part of the modelled report).  An      *)
(* exception raised by a step leaves the function in place of the report.  *)
(***************************************************************************)
IsMedium(r) == r.risk_level = "medium"

\* faulty variant: the level "minimal" left out of the low count
IsLowRiskOnly(r) == r.risk_level = "low"

IsLowRisk(r) == r.risk_level \in {"low", "minimal"}

calculate_risk_report(cls, anls, seed) ==
    LET clause_risks == _calculate_clause_risks(cls, anls)
        category_risks == _aggregate_by_category(clause_risks, seed)
        scored == _calculate_overall_score(clause_risks)
        overall_score == scored.overall
        overall_level == _score_to_level(overall_score)
        top_risks == Take(SortedByScoreDesc(clause_risks), 5)
        Confidence(r) == r.confidence
        avg_confidence ==
            IF clause_risks # <<>>
            THEN RatDiv(RatSum(MapSeq(clause_risks, Confidence)),
                        Int2Rat(Len(clause_risks)))
            ELSE Int2Rat(0)
        summary == _generate_summary(overall_score, overall_level,
                                     category_risks, top_risks, seed)
    IN  IF summary = TypeError THEN TypeError ELSE
        [overall_risk_score |-> overall_score,
         overall_risk_level |-> overall_level,
         total_clauses_analyzed |-> Len(clause_risks),
         high_risk_clause_count |-> Count(clause_risks, IsHighRisk),
         medium_risk_clause_count |-> Count(clause_risks, IsMedium),
         low_risk_clause_count |-> Count(clause_risks, IsLowRisk),
         category_risks |-> category_risks,
         top_risks |-> top_risks,
         all_clause_risks |-> clause_risks,
         summary |-> summary,
         citations |-> _collect_citations(anls),
         confidence |-> avg_confidence,
         scoring_breakdown |-> scored.breakdown]

(***************************************************************************)
(* The service at rest: no call of analyze_clauses is running, nothing has *)
(* been uploaded and no request has been made.                             *)
(***************************************************************************)
\* documents and requests of the modelled service
DocIds == {"doc-1", "doc-2"}

RequestIds == 1..MaxRequests

\* raised is not state of the program: it records the clauses whose
\* analyze_clause call raised, for the properties to refer to
RagIdle ==
    [pc |-> "idle", i |-> 0, in_flight |-> {}, batch_analyses |-> <<>>,
     all_analyses |-> <<>>, raised |-> {}]

ServicesIdle ==
    /\ rag = RagIdle
    /\ store = [d \in DocIds |-> None]
    /\ requests = [r \in RequestIds |-> None]

(***************************************************************************)
(* Inputs of the engine.                                                   *)
(***************************************************************************)
\* clause types the modelled contracts use (weights 1.5, 1.0 and 0.5)
Categories == {"data_protection", "payment_terms", "counterparts"}

\* risk scores and confidences (in tenths) a compliance analysis carries
BaseScores == {15, 60, 75}
Confidences == {0, 8, 10}

\* values the LLM answer can carry as well: rag_engine applies float() to
\* the parsed JSON fields and does not check their range
RawScores == {-20, 60, 120}
RawConfidences == {0, 10, 15}

Regulations == {"GDPR Art. 5", "CCPA 1798.100"}

\* the violated_regulations lists of the analyses
ViolationLists ==
    {<<>>} \cup {<<r>> : r \in Regulations}
           \cup {p \in Regulations \X Regulations : p[1] # p[2]}

\* the iteration orders a set of regulation names can have, one per string
\* hash seed
HashSeeds ==
    {s \in [1..Cardinality(Regulations) -> Regulations] :
        Range(s) = Regulations}

ComplianceAnalysis(clause_id, risk_score, confidence10, violated) ==
    [clause_id |-> clause_id,
     risk_score |-> Int2Rat(risk_score),
     confidence |-> Rat(confidence10, 10),
     risk_level |-> "medium",
     violated_regulations |-> violated,
     matched_regulations |-> <<>>,
     recommendations |-> << "Revise clause" >>,
     explanation |-> "LLM explanation"]

\* raw_text is the sequence of the characters of the clause
ExtractedClause(clause_id, clause_type) ==
    [clause_id |-> clause_id,
     clause_type |-> clause_type,
     raw_text |-> << "F", "e", "e", "s" >>]

\* RAGEngine._create_error_analysis: the record that stands for a clause
\* whose analysis failed
_create_error_analysis(clause) ==
    [clause_id |-> clause.clause_id,
     risk_score |-> Int2Rat(75),
     confidence |-> Int2Rat(0),
     risk_level |-> "high",
     violated_regulations |-> <<>>,
     matched_regulations |-> <<>>,
     recommendations |-> << "Manual legal review required" >>,
     explanation |-> "Analysis error. Manual review recommended."]

NotNone(x) == x # None

\* n clauses with ids 1..n; the analyses in clause order, at most one per
\* clause (RAGEngine.analyze_clauses), a clause may have none
InputsFrom(n, cats, opts) ==
    /\ clauses = [i \in 1..n |-> ExtractedClause(i, cats[i])]
    /\ analyses = SelectSeq([i \in 1..n |-> opts[i]], NotNone)

AnalysisChoices(i, scores, confs, viols) ==
    {ComplianceAnalysis(i, s, c, v) : s \in scores, c \in confs, v \in viols}
        \cup {None}

DefaultSeed == << "GDPR Art. 5", "CCPA 1798.100" >>

InitWith(scores, confs, viols, seeds) ==
    /\ \E n \in 0..MaxClauses :
        \E cats \in [1..n -> Categories] :
            \E opts \in [1..n -> AnalysisChoices(0, scores, confs, viols)] :
                InputsFrom(n, cats,
                           [i \in 1..n |->
                               IF opts[i] = None THEN None
                               ELSE [opts[i] EXCEPT !.clause_id = i]])
    /\ hash_seed \in seeds
    /\ report = None
    /\ previous = None
    /\ ServicesIdle

\* analyses whose scores and confidences are in range
Init == InitWith(BaseScores, Confidences, {<<>>}, {DefaultSeed})

\* analyses as the LLM answers can make them
InitUpstream == InitWith(RawScores, RawConfidences, {<<>>}, {DefaultSeed})

\* analyses that name violated regulations, in a process with any hash seed
InitHash == InitWith({60, 75}, {10}, ViolationLists, HashSeeds)

\* clause types of the inputs below: one of the weight table and one the
\* table has no row for
InputCategories == {"data_protection", "unlisted"}

\* an empty clause text and one longer than the preview
Texts == {<<>>, [i \in 1..301 |-> "x"]}

\* what analyze_clauses can hand over for a clause: nothing, an LLM answer
\* that names a regulation, an LLM answer whose "violated_regulations" is
\* the JSON null (result.get returns it as None), or the error analysis
InputAnalyses ==
    {None,
     ComplianceAnalysis(0, 60, 10, << "GDPR Art. 5" >>),
     ComplianceAnalysis(0, 60, 10, NoneList),
     _create_error_analysis(ExtractedClause(0, "unknown"))}

\* any mix of the above
InitInputs ==
    /\ \E n \in 0..MaxClauses :
        \E cats \in [1..n -> InputCategories] :
            \E texts \in [1..n -> Texts] :
                \E opts \in [1..n -> InputAnalyses] :
                    /\ clauses =
                        [i \in 1..n |->
                            [ExtractedClause(i, cats[i])
                                EXCEPT !.raw_text = texts[i]]]
                    /\ analyses =
                        SelectSeq([i \in 1..n |->
                                      IF opts[i] = None THEN None
                                      ELSE [opts[i] EXCEPT !.clause_id = i]],
                                  NotNone)
    /\ hash_seed = DefaultSeed
    /\ report = None
    /\ previous = None
    /\ ServicesIdle

\* RetrievedContext: a regulation text the vector search or the direct
\* lookup found for a clause
RetrievedContext(regulation_id, title, source_url) ==
    [regulation_id |-> regulation_id,
     article_number |-> "5",
     title |-> title,
     text |-> "Personal data shall be processed lawfully",
     relevance_score |-> Int2Rat(1),
     source_url |-> source_url,
     regulation_type |-> "gdpr"]

\* two contexts of one regulation id whose stored title and source differ,
\* and one of another regulation
Contexts ==
    {RetrievedContext("GDPR Art. 5", "Principles", "https://gdpr-info.eu"),
     RetrievedContext("GDPR Art. 5", "Article 5", "https://eur-lex.europa.eu"),
     RetrievedContext("CCPA 1798.100", "Right to know", "https://oag.ca.gov")}

\* matched_regulations = contexts[:5], here of at most two contexts
ContextLists ==
    {<<>>} \cup {<<c>> : c \in Contexts} \cup (Contexts \X Contexts)

\* analyses that differ in the regulations matched to their clause
InitCitations ==
    /\ \E n \in 0..MaxClauses :
        \E analysed \in [1..n -> BOOLEAN] :
            \E lists \in [1..n -> ContextLists] :
                /\ \A i \in 1..n : analysed[i] \/ lists[i] = <<>>
                /\ InputsFrom(n, [i \in 1..n |-> "data_protection"],
                              [i \in 1..n |->
                                  IF analysed[i]
                                  THEN [ComplianceAnalysis(i, 60, 10, <<>>)
                                           EXCEPT !.matched_regulations
                                                      = lists[i]]
                                  ELSE None])
    /\ hash_seed = DefaultSeed
    /\ report = None
    /\ previous = None
    /\ ServicesIdle

\* any list of findings: up to one more than there can be clauses, each
\* with the id of a clause or with an id no clause has, several of them
\* with the same id
InitFindings ==
    /\ \E n \in 0..MaxClauses :
        \E cats \in [1..n -> {"data_protection", "payment_terms"}] :
            clauses = [i \in 1..n |-> ExtractedClause(i, cats[i])]
    /\ \E m \in 0..(MaxClauses + 1) :
        \E ids \in [1..m -> 1..(MaxClauses + 1)] :
            \E scores \in [1..m -> {15, 75}] :
                analyses = [k \in 1..m |->
                               ComplianceAnalysis(ids[k], scores[k], 10, <<>>)]
    /\ hash_seed = DefaultSeed
    /\ report = None
    /\ previous = None
    /\ ServicesIdle

\* the clauses Step 2 extracted, before Step 3 has analysed them
InitRag ==
    /\ \E n \in 0..MaxContractClauses :
        clauses = [i \in 1..n |-> ExtractedClause(i, "data_protection")]
    /\ analyses = <<>>
    /\ hash_seed = DefaultSeed
    /\ report = None
    /\ previous = None
    /\ ServicesIdle

\* clause types of the contracts below (weights 1.0 and 0.5)
ContractCategories == {"payment_terms", "counterparts"}

\* a whole contract: every clause of one of two types, without analysis
\* (score 50) or with an LLM answer of risk score 60 and confidence 1.0
\* (score 60 or 30 by the weight of its type)
InitContract ==
    /\ \E n \in 0..MaxContractClauses :
        \E cats \in [1..n -> ContractCategories] :
            \E opts \in [1..n -> AnalysisChoices(0, {60}, {10}, {<<>>})] :
                InputsFrom(n, cats,
                           [i \in 1..n |->
                               IF opts[i] = None THEN None
                               ELSE [opts[i] EXCEPT !.clause_id = i]])
    /\ hash_seed = DefaultSeed
    /\ report = None
    /\ previous = None
    /\ ServicesIdle

(***************************************************************************)
(* Actions.                                                                *)
(***************************************************************************)
\* risk_engine.calculate_risk_report(document_id, clauses, analyses); a
\* re-analysis has calculated its report itself
CalculateRiskReport ==
    /\ previous = None
    /\ report' = calculate_risk_report(clauses, analyses, hash_seed)
    /\ UNCHANGED <<clauses, analyses, hash_seed, previous>>
    /\ UNCHANGED serviceVars

\* run_analysis_pipeline run again on the same document: the compliance
\* analysis of one clause comes back with another risk score, and the risk
\* report is calculated from the new analyses.  One re-analysis is followed
\* per behaviour; Init supplies every list of analyses to start it from.
Reanalyze(scores) ==
    /\ report # None
    /\ previous = None
    /\ \E k \in 1..Len(analyses) : \E s \in scores :
        /\ Int2Rat(s) # analyses[k].risk_score
        /\ analyses' = [analyses EXCEPT ![k].risk_score = Int2Rat(s)]
        /\ previous' = [analysis |-> analyses[k],
                        overall_risk_score |-> report.overall_risk_score]
    /\ report' = calculate_risk_report(clauses, analyses', hash_seed)
    /\ UNCHANGED <<clauses, hash_seed>>
    /\ UNCHANGED serviceVars

\* the server process is started again: PYTHONHASHSEED is not set, so the
\* new process draws a new string hash seed; the caller keeps the report
\* it was given
Restart ==
    /\ \E seed \in HashSeeds :
        /\ seed # hash_seed
        /\ hash_seed' = seed
    /\ UNCHANGED <<clauses, analyses, report, previous>>
    /\ UNCHANGED serviceVars

(***************************************************************************)
(* RAGEngine.analyze_clauses.  The coroutine runs on the event loop: what  *)
(* lies between two awaits is one step.  asyncio.gather starts the         *)
(* analyze_clause calls of a batch together and returns when the last of   *)
(* them has ended, with the results in the order of the calls.             *)
(***************************************************************************)
batch_size == 5

\* faulty variant: one gather over all the clauses that are left
BatchOfRest(i) == (i + 1)..Len(clauses)

\* the places of clauses[i:i + batch_size]
BatchOf(i) ==
    (i + 1)..(IF i + batch_size < Len(clauses)
              THEN i + batch_size ELSE Len(clauses))

\* an exception that analyze_clause raised, as gather returns it
AnalysisException == [exception |-> "Exception"]

\* the ComplianceAnalysis appended for a clause whose call raised
FailedAnalysis(clause) ==
    [clause_id |-> clause.clause_id,
     risk_score |-> Int2Rat(75),
     confidence |-> Int2Rat(0),
     risk_level |-> "high",
     violated_regulations |-> <<>>,
     matched_regulations |-> <<>>,
     recommendations |-> << "Manual review required" >>,
     explanation |-> "Analysis failed"]

\* faulty variant: the results of a batch appended as they are, without
\* the ones that are exceptions
AppendBatchDropFailed(all, i, results) ==
    LET batch == [j \in 1..Cardinality(DOMAIN results) |-> results[i + j]]
    IN  all \o SelectSeq(batch, LAMBDA a : a # AnalysisException)

\* the "for j, analysis in enumerate(batch_analyses)" loop
AppendBatch(all, i, results) ==
    all \o [j \in 1..Cardinality(DOMAIN results) |->
               IF results[i + j] = AnalysisException
               THEN FailedAnalysis(clauses[i + j])
               ELSE results[i + j]]

\* the head of the "for i in range(0, len(clauses), batch_size)" loop: the
\* next gather is awaited, or the list is returned to the pipeline
LoopFrom(i, all) ==
    IF i < Len(clauses)
    THEN /\ rag' = [pc |-> "gathering", i |-> i, in_flight |-> BatchOf(i),
                    batch_analyses |-> <<>>, all_analyses |-> all,
                    raised |-> rag.raised]
         /\ UNCHANGED analyses
    ELSE /\ rag' = [pc |-> "returned", i |-> i, in_flight |-> {},
                    batch_analyses |-> <<>>, all_analyses |-> all,
                    raised |-> rag.raised]
         /\ analyses' = all

\* rag_engine.analyze_clauses(extraction_result.clauses) is called
AnalyzeClauses ==
    /\ rag.pc = "idle"
    /\ LoopFrom(0, <<>>)
    /\ UNCHANGED <<clauses, hash_seed, report, previous, store, requests>>

\* one analyze_clause call of the running batch ends, with the analysis
\* of its clause or with an exception
AnalyzeClause(c) ==
    /\ rag.pc = "gathering"
    /\ c \in rag.in_flight
    /\ \E result \in {ComplianceAnalysis(clauses[c].clause_id, 60, 10, <<>>),
                       _create_error_analysis(clauses[c]),
                       AnalysisException} :
        rag' = [rag EXCEPT
                   !.in_flight = @ \ {c},
                   !.raised = IF result = AnalysisException
                              THEN @ \cup {c} ELSE @,
                   !.batch_analyses =
                       [k \in DOMAIN rag.batch_analyses \cup {c} |->
                           IF k = c THEN result ELSE rag.batch_analyses[k]]]
    /\ UNCHANGED <<clauses, analyses, hash_seed, report, previous,
                   store, requests>>

\* the gather returns: its results are appended and the loop goes on
GatherReturns ==
    /\ rag.pc = "gathering"
    /\ rag.in_flight = {}
    /\ LoopFrom(rag.i + batch_size,
                AppendBatch(rag.all_analyses, rag.i, rag.batch_analyses))
    /\ UNCHANGED <<clauses, hash_seed, report, previous, store, requests>>

\* Step 4 follows Step 3
ScoreAnalysedClauses ==
    /\ rag.pc = "returned"
    /\ report = None
    /\ CalculateRiskReport

Next ==
    \/ CalculateRiskReport
    \/ Reanalyze(BaseScores)

Spec == Init /\ [][Next]_vars

NextUpstream ==
    \/ CalculateRiskReport
    \/ Reanalyze(RawScores)

SpecUpstream == InitUpstream /\ [][NextUpstream]_vars

NextHash ==
    \/ CalculateRiskReport
    \/ Restart

SpecHash == InitHash /\ [][NextHash]_vars

NextInputs == CalculateRiskReport

SpecInputs == InitInputs /\ [][NextInputs]_vars

NextCitations == CalculateRiskReport

SpecCitations == InitCitations /\ [][NextCitations]_vars

(***************************************************************************)
(* The document store and the requests on it: api/upload.py,               *)
(* api/analyze.py and api/risk.py.  The handlers are coroutines of one     *)
(* event loop: the code of a handler between two awaits runs as one step.  *)
(* analyze_document awaits once, at run_analysis_pipeline.                 *)
(***************************************************************************)
\* AnalysisStatusEnum
PENDING == "pending"

PROCESSING == "processing"

COMPLETED == "completed"

FAILED == "failed"

\* the entry upload_document stores under a new document id
UploadedDocument ==
    [status |-> PENDING, risk_report |-> None, error_message |-> None]

\* the answer a handler gives; ran tells whether the request awaited the
\* analysis pipeline
Response(kind, d, status_code, body, ran) ==
    [kind |-> kind, doc |-> d, pc |-> "done", status_code |-> status_code,
     body |-> body, ran |-> ran]

HTTPException(error) == [error |-> error]

\* a request suspended at await run_analysis_pipeline(...)
AwaitingPipeline(d) ==
    [kind |-> "analyze", doc |-> d, pc |-> "pipeline", status_code |-> 0,
     body |-> None, ran |-> TRUE]

\* OCRError raised by the OCR step of the pipeline
OCRError == [raised |-> "OCRError"]

\* what run_analysis_pipeline can end with: OCRError, or what
\* calculate_risk_report makes of the clause and its finding: a report, a
\* report with a clause score below 0, or the TypeError it raises on a
\* finding whose violated_regulations is None
PipelineOutcomes ==
    {OCRError}
        \cup {calculate_risk_report(
                  << ExtractedClause(1, "data_protection") >>,
                  << finding >>, DefaultSeed) :
              finding \in {ComplianceAnalysis(1, 60, 10, <<>>),
                           ComplianceAnalysis(1, -20, 0, <<>>),
                           ComplianceAnalysis(1, 60, 10, NoneList)}}

\* Field(..., ge=ge, le=le) of a float
Field(x, ge, le) == ~RatLess(x, Int2Rat(ge)) /\ ~RatLess(Int2Rat(le), x)

\* the Field constraints of ClauseRiskSchema, CategoryRiskSchema and
\* RiskReportSchema: convert_risk_report_to_schema raises pydantic's
\* ValidationError on a report that breaks one of them
SchemaAccepts(rep) ==
    /\ \A i \in 1..Len(rep.top_risks) :
        /\ Field(rep.top_risks[i].risk_score, 0, 100)
        /\ Field(rep.top_risks[i].confidence, 0, 1)
    /\ \A i \in 1..Len(rep.category_risks) :
        Field(rep.category_risks[i].risk_score, 0, 100)
    /\ Field(rep.overall_risk_score, 0, 100)
    /\ Field(rep.confidence, 0, 1)

\* faulty variant: the check of the status left out
AlreadyProcessingNever(doc) == FALSE

\* if doc["status"] == AnalysisStatusEnum.PROCESSING
AlreadyProcessing(doc) == doc.status = PROCESSING

\* faulty variant: the report is not stored
StoreCompletedOnly(doc, risk_report) == [doc EXCEPT !.status = COMPLETED]

\* doc["status"] = COMPLETED; doc["risk_report"] = risk_report
StoreCompleted(doc, risk_report) ==
    [doc EXCEPT !.status = COMPLETED, !.risk_report = risk_report]

\* doc["status"] = FAILED; doc["error_message"] = str(e)
StoreFailed(doc, e) ==
    [doc EXCEPT !.status = FAILED, !.error_message = [str |-> e]]

\* POST /upload: the document is stored under an id no document has yet
upload_document(d) ==
    /\ store[d] = None
    /\ store' = [store EXCEPT ![d] = UploadedDocument]
    /\ UNCHANGED <<clauses, analyses, hash_seed, report, previous, rag,
                   requests>>

\* POST /analyze/{document_id} up to its first await: the checks of the
\* document, and when the analysis is to run, status PROCESSING and the
\* check that the uploaded file is still there
analyze_document(r, d) ==
    /\ requests[r] = None
    /\ IF store[d] = None
       THEN /\ requests' = [requests EXCEPT ![r] =
                   Response("analyze", d, 404,
                            HTTPException("DocumentNotFound"), FALSE)]
            /\ UNCHANGED store
       ELSE IF AlreadyProcessing(store[d])
       THEN /\ requests' = [requests EXCEPT ![r] =
                   Response("analyze", d, 409,
                            HTTPException("AnalysisInProgress"), FALSE)]
            /\ UNCHANGED store
       ELSE IF store[d].status = COMPLETED /\ store[d].risk_report # None
       THEN /\ requests' = [requests EXCEPT ![r] =
                   IF SchemaAccepts(store[d].risk_report)
                   THEN Response("analyze", d, 200, store[d].risk_report,
                                 FALSE)
                   ELSE Response("analyze", d, 500,
                                 HTTPException("ValidationError"), FALSE)]
            /\ UNCHANGED store
       ELSE \E file_exists \in BOOLEAN :
            IF file_exists
            THEN /\ store' = [store EXCEPT ![d].status = PROCESSING]
                 /\ requests' = [requests EXCEPT ![r] = AwaitingPipeline(d)]
            ELSE /\ store' = [store EXCEPT ![d] =
                        StoreFailed(store[d], "FileNotFoundError")]
                 /\ requests' = [requests EXCEPT ![r] =
                        Response("analyze", d, 500,
                                 HTTPException("AnalysisFailed"), FALSE)]
    /\ UNCHANGED <<clauses, analyses, hash_seed, report, previous, rag>>

\* analyze_document from the end of run_analysis_pipeline on: the report
\* is stored and converted, or an except clause marks the document FAILED
run_analysis_pipeline_returns(r) ==
    /\ requests[r] # None
    /\ requests[r].pc = "pipeline"
    /\ LET d == requests[r].doc
       IN  \E outcome \in PipelineOutcomes :
            IF outcome = OCRError
            THEN /\ store' = [store EXCEPT ![d] =
                        StoreFailed(store[d], "OCRError")]
                 /\ requests' = [requests EXCEPT ![r] =
                        Response("analyze", d, 422,
                                 HTTPException("OCRError"), TRUE)]
            ELSE IF outcome = TypeError
            THEN /\ store' = [store EXCEPT ![d] =
                        StoreFailed(store[d], "TypeError")]
                 /\ requests' = [requests EXCEPT ![r] =
                        Response("analyze", d, 500,
                                 HTTPException("AnalysisFailed"), TRUE)]
            ELSE IF SchemaAccepts(outcome)
            THEN /\ store' = [store EXCEPT ![d] =
                        StoreCompleted(store[d], outcome)]
                 /\ requests' = [requests EXCEPT ![r] =
                        Response("analyze", d, 200, outcome, TRUE)]
            ELSE /\ store' = [store EXCEPT ![d] =
                        StoreFailed(StoreCompleted(store[d], outcome),
                                    "ValidationError")]
                 /\ requests' = [requests EXCEPT ![r] =
                        Response("analyze", d, 500,
                                 HTTPException("AnalysisFailed"), TRUE)]
    /\ UNCHANGED <<clauses, analyses, hash_seed, report, previous, rag>>

\* the task of a request is cancelled while it awaits the pipeline:
\* asyncio.CancelledError is raised at the await; it is a BaseException,
\* which neither except OCRError nor except Exception catches
request_cancelled(r) ==
    /\ requests[r] # None
    /\ requests[r].pc = "pipeline"
    /\ requests' = [requests EXCEPT ![r].pc = "cancelled"]
    /\ UNCHANGED <<clauses, analyses, hash_seed, report, previous, rag,
                   store>>

\* GET /risk/{document_id}
get_risk_report(r, d) ==
    /\ requests[r] = None
    /\ requests' = [requests EXCEPT ![r] =
           IF store[d] = None
           THEN Response("risk", d, 404, HTTPException("DocumentNotFound"),
                         FALSE)
           ELSE IF store[d].status # COMPLETED
           THEN Response("risk", d, 400,
                         HTTPException("AnalysisNotComplete"), FALSE)
           ELSE IF store[d].risk_report = None
           THEN Response("risk", d, 500, HTTPException("ReportNotFound"),
                         FALSE)
           ELSE Response("risk", d, 200, store[d].risk_report, FALSE)]
    /\ UNCHANGED <<clauses, analyses, hash_seed, report, previous, rag,
                   store>>

\* GET /analyze/{document_id}/status
get_analysis_status(r, d) ==
    /\ requests[r] = None
    /\ requests' = [requests EXCEPT ![r] =
           IF store[d] = None
           THEN Response("status", d, 404,
                         HTTPException("DocumentNotFound"), FALSE)
           ELSE Response("status", d, 200,
                         [status |-> store[d].status,
                          error_message |-> store[d].error_message],
                         FALSE)]
    /\ UNCHANGED <<clauses, analyses, hash_seed, report, previous, rag,
                   store>>

\* one of the calls in flight ends
AnalyzeSomeClause == \E c \in 1..Len(clauses) : AnalyzeClause(c)

NextRag ==
    \/ AnalyzeClauses
    \/ AnalyzeSomeClause
    \/ GatherReturns
    \/ ScoreAnalysedClauses

SpecRag == InitRag /\ [][NextRag]_vars

\* the service after its start: nothing uploaded, no request made
InitStore ==
    /\ clauses = <<>>
    /\ analyses = <<>>
    /\ hash_seed = DefaultSeed
    /\ report = None
    /\ previous = None
    /\ ServicesIdle

Upload == \E d \in DocIds : upload_document(d)

Analyze == \E r \in RequestIds : \E d \in DocIds : analyze_document(r, d)

PipelineReturns == \E r \in RequestIds : run_analysis_pipeline_returns(r)

Cancelled == \E r \in RequestIds : request_cancelled(r)

GetRisk == \E r \in RequestIds : \E d \in DocIds : get_risk_report(r, d)

GetStatus ==
    \E r \in RequestIds : \E d \in DocIds : get_analysis_status(r, d)

NextStore ==
    \/ Upload
    \/ Analyze
    \/ PipelineReturns
    \/ Cancelled
    \/ GetRisk
    \/ GetStatus

SpecStore == InitStore /\ [][NextStore]_vars

\* a pipeline that has ended resumes the request that awaits it; nothing
\* obliges a client to make a request or a task to be cancelled
SpecStoreFair ==
    SpecStore /\ \A r \in RequestIds : WF_vars(run_analysis_pipeline_returns(r))

NextFindings == CalculateRiskReport

SpecFindings == InitFindings /\ [][NextFindings]_vars

NextContract == CalculateRiskReport

SpecContract == InitContract /\ [][NextContract]_vars

(***************************************************************************)
(* Integer views of the report, used to state the properties without the   *)
(* rational operators of the model.  Clause scores are multiples of 1/200, *)
(* weights and confidences are multiples of 1/10.                          *)
(***************************************************************************)
Times200(x) == x.n * (200 \div x.d)

Times10(x) == x.n * (10 \div x.d)

Weight10(r) == CLAUSE_TYPE_WEIGHTS[r.clause_type]

Clamp(v, lo, hi) == IF v < lo THEN lo ELSE IF v > hi THEN hi ELSE v

MinInt(a, b) == IF a < b THEN a ELSE b

RECURSIVE SumInt(_)
SumInt(s) == IF s = <<>> THEN 0 ELSE Head(s) + SumInt(Tail(s))

MaxInt(s) == CHOOSE m \in Range(s) : \A x \in Range(s) : x <= m

\* x >= k for a rational x and an integer k
AtLeast(x, k) == x.n >= k * x.d

AtMost(x, k) == x.n <= k * x.d

Classify(score) ==
    IF AtLeast(score, 80) THEN "critical"
    ELSE IF AtLeast(score, 60) THEN "high"
    ELSE IF AtLeast(score, 40) THEN "medium"
    ELSE IF AtLeast(score, 20) THEN "low"
    ELSE "minimal"

HighOrCritical(risks) ==
    Cardinality({i \in 1..Len(risks) :
                    risks[i].risk_level \in {"high", "critical"}})

\* the analyses with the clause id of clause i
AnalysesOf(i) ==
    {k \in 1..Len(analyses) : analyses[k].clause_id = clauses[i].clause_id}

Reported == report # None

C2_ClauseScoreFormula ==
    Reported =>
        \A i \in 1..Len(clauses) : \A k \in AnalysesOf(i) :
            LET base == analyses[k].risk_score.n
                c10 == Times10(analyses[k].confidence)
                w10 == Weight10(clauses[i])
            IN  Times200(report.all_clause_risks[i].risk_score)
                    = Clamp(MinInt(1000, base * w10) * (10 + c10), 0, 20000)

(***************************************************************************)
(* C3: when every finding has its risk score in [0,100] and its confidence *)
(* in [0,1], every ClauseRisk has 0 <= risk_score <= 100, the confidence   *)
(* factor applied to it is in [0.5, 1.0], and the final score is at most   *)
(* the weighted score min(100, base*weight).                               *)
(***************************************************************************)
FindingsInRange ==
    \A k \in 1..Len(analyses) :
        /\ AtLeast(analyses[k].risk_score, 0)
        /\ AtMost(analyses[k].risk_score, 100)
        /\ AtLeast(analyses[k].confidence, 0)
        /\ AtMost(analyses[k].confidence, 1)

C3_ClauseScoreBounded ==
    (Reported /\ FindingsInRange) =>
        \A i \in 1..Len(clauses) :
            LET r == report.all_clause_risks[i]
            IN  /\ AtLeast(r.risk_score, 0)
                /\ AtMost(r.risk_score, 100)
                /\ \A k \in AnalysesOf(i) :
                    LET factor == r.contributing_factors[3].value
                        weighted10 ==
                            MinInt(1000, analyses[k].risk_score.n
                                            * Weight10(clauses[i]))
                    IN  /\ 2 * factor.n >= factor.d
                        /\ factor.n <= factor.d
                        /\ Times200(r.risk_score) <= 20 * weighted10

\* all findings in range, one of them with confidence 0: factor 0.5, and
\* the final score 45 is below the weighted score 90
C3_Witness ==
    /\ Reported
    /\ FindingsInRange
    /\ \E i \in 1..Len(clauses) : \E k \in AnalysesOf(i) :
        /\ analyses[k].confidence = Int2Rat(0)
        /\ analyses[k].risk_score = Int2Rat(60)
        /\ clauses[i].clause_type = "data_protection"
        /\ report.all_clause_risks[i].contributing_factors[3].value = Rat(1, 2)
        /\ report.all_clause_risks[i].risk_score = Int2Rat(45)

ScoreRaised ==
    /\ previous # None
    /\ \E k \in 1..Len(analyses) :
        /\ analyses[k].clause_id = previous.analysis.clause_id
        /\ RatLess(previous.analysis.risk_score, analyses[k].risk_score)

C5_Monotone ==
    (Reported /\ ScoreRaised /\ FindingsInRange) =>
        RatLeq(previous.overall_risk_score, report.overall_risk_score)

\* a raised score that moved the overall score up
C5_Witness ==
    /\ Reported
    /\ ScoreRaised
    /\ Len(clauses) >= 2
    /\ RatLess(previous.overall_risk_score, report.overall_risk_score)

(***************************************************************************)
(* C6: a clause without a finding gets risk score 50, level medium,        *)
(* confidence 0.0, the one recommendation "Manual review recommended", no  *)
(* violated regulations and the one contributing factor "Missing           *)
(* Analysis".                                                              *)
(***************************************************************************)
C6_MissingFindingDefault ==
    Reported =>
        \A i \in 1..Len(clauses) :
            AnalysesOf(i) = {} =>
                LET r == report.all_clause_risks[i]
                IN  /\ r.risk_score.n = 50 /\ r.risk_score.d = 1
                    /\ r.risk_level = "medium"
                    /\ r.confidence.n = 0
                    /\ r.recommendations = << "Manual review recommended" >>
                    /\ r.violated_regulations = <<>>
                    /\ Len(r.contributing_factors) = 1
                    /\ r.contributing_factors[1].factor = "Missing Analysis"

\* a report over a clause with a finding and a clause without one
C6_Witness ==
    /\ Reported
    /\ \E i, j \in 1..Len(clauses) :
        /\ AnalysesOf(i) = {}
        /\ AnalysesOf(j) # {}
        /\ report.all_clause_risks[i].clause_id = clauses[i].clause_id

C8_CountsAddUp ==
    Reported =>
        report.high_risk_clause_count + report.medium_risk_clause_count
            + report.low_risk_clause_count = report.total_clauses_analyzed

\* a report with a minimal clause and a critical clause
C8_Witness ==
    /\ Reported
    /\ report.total_clauses_analyzed = 2
    /\ \E i, j \in 1..2 :
        /\ report.all_clause_risks[i].risk_level = "minimal"
        /\ report.all_clause_risks[j].risk_level = "critical"

(***************************************************************************)
(* C9: a second run of calculate_risk_report on the same clauses and       *)
(* analyses returns the report of the first run, the order of top_issues   *)
(* and of the violated regulations of the summary included.                *)
(***************************************************************************)
C9_Deterministic ==
    [][(Reported /\ report' # None /\ clauses' = clauses
            /\ analyses' = analyses) => report' = report]_vars

(***************************************************************************)
(* C10: a finding with a risk score outside [0,100] or a confidence        *)
(* outside [0,1] is clamped: every ClauseRisk score, every category score  *)
(* and the overall score stay in [0,100].                                  *)
(***************************************************************************)
C10_ScoresClamped ==
    Reported =>
        /\ \A i \in 1..Len(report.all_clause_risks) :
            /\ AtLeast(report.all_clause_risks[i].risk_score, 0)
            /\ AtMost(report.all_clause_risks[i].risk_score, 100)
        /\ \A c \in 1..Len(report.category_risks) :
            /\ AtLeast(report.category_risks[c].risk_score, 0)
            /\ AtMost(report.category_risks[c].risk_score, 100)
        /\ AtLeast(report.overall_risk_score, 0)
        /\ AtMost(report.overall_risk_score, 100)

(***************************************************************************)
(* C11: calculate_risk_report never raises: for every input (clauses with  *)
(* or without findings, clause types outside the table, empty clause text, *)
(* the empty clause list) the run ends with a well-formed report, one      *)
(* ClauseRisk per clause.                                                  *)
(***************************************************************************)
C11_NeverRaises ==
    Reported =>
        /\ report # TypeError
        /\ report.total_clauses_analyzed = Len(clauses)
        /\ Len(report.all_clause_risks) = Len(clauses)
        /\ report.overall_risk_level
                \in {"critical", "high", "medium", "low", "minimal"}

\* the run returned a report
Returned == Reported /\ report # TypeError

\* the weight in tenths a clause type resolves to
WeightTenths(clause_type) ==
    IF clause_type \in DOMAIN CLAUSE_TYPE_WEIGHTS
    THEN CLAUSE_TYPE_WEIGHTS[clause_type]
    ELSE 10

Unlisted(clause_type) == clause_type \notin DOMAIN CLAUSE_TYPE_WEIGHTS

(***************************************************************************)
(* C17: every weight of the table is greater than 0 and at most 2.0; a     *)
(* clause type the table has no row for resolves to weight 1.0 and to      *)
(* itself as display name, in the clause score, in the category average    *)
(* and in the overall average.                                             *)
(***************************************************************************)
C17_WeightTableTotal ==
    /\ \A c \in DOMAIN CLAUSE_TYPE_WEIGHTS :
        CLAUSE_TYPE_WEIGHTS[c] > 0 /\ CLAUSE_TYPE_WEIGHTS[c] <= 20
    /\ Returned =>
        LET risks == report.all_clause_risks
            N == Len(risks)
            W10(i) == WeightTenths(risks[i].clause_type)
            S200(i) == Times200(risks[i].risk_score)
            W == SumInt([i \in 1..N |-> W10(i)])
            SW == SumInt([i \in 1..N |-> S200(i) * W10(i)])
            M == MaxInt([i \in 1..N |-> S200(i)])
            D == 2000 * W * N
            excess == IF M * W > SW THEN M * W - SW ELSE 0
            expected ==
                6 * N * SW + 3 * N * excess
                    + 40000 * HighOrCritical(risks) * W
            overall == report.overall_risk_score
        IN  /\ \A i \in 1..N : \A k \in AnalysesOf(i) :
                Unlisted(clauses[i].clause_type) =>
                    /\ risks[i].contributing_factors[2].value = Int2Rat(1)
                    /\ S200(i) = MinInt(1000, analyses[k].risk_score.n * 10)
                                    * (10 + Times10(analyses[k].confidence))
            /\ \A c \in 1..Len(report.category_risks) :
                LET cat == report.category_risks[c]
                IN  Unlisted(cat.category) =>
                        /\ cat.category_display = cat.category
                        /\ cat.risk_score.n * 200 * cat.clause_count
                            = cat.risk_score.d
                                * SumInt([j \in 1..cat.clause_count |->
                                        Times200(cat.clauses[j].risk_score)])
            /\ (N > 0 /\ \E i \in 1..N : Unlisted(risks[i].clause_type)) =>
                    /\ D % overall.d = 0
                    /\ overall.n * (D \div overall.d) = expected

\* an analysed clause of an unlisted type next to a clause of weight 1.5
C17_Witness ==
    /\ Returned
    /\ \E i, j \in 1..Len(clauses) :
        /\ Unlisted(clauses[i].clause_type)
        /\ AnalysesOf(i) # {}
        /\ report.all_clause_risks[i].risk_score = Int2Rat(60)
        /\ clauses[j].clause_type = "data_protection"
    /\ \E c \in 1..Len(report.category_risks) :
        report.category_risks[c].category_display = "unlisted"

\* the record _create_error_analysis builds
IsErrorAnalysis(a) ==
    /\ a.risk_level = "high"
    /\ a.risk_score = Int2Rat(75)
    /\ a.confidence = Int2Rat(0)

(***************************************************************************)
(* C18: the ClauseRisk of a clause whose finding is an error analysis      *)
(* (risk_level high, score 75, confidence 0) is min(100, 75*weight) * 0.5, *)
(* with the contributing factors Base Compliance Score, Clause Type        *)
(* Weight, Confidence Factor in that order, and its level is the           *)
(* classifier of that score, not the risk_level of the record.             *)
(***************************************************************************)
C18_ErrorAnalysisOrdinary ==
    Returned =>
        \A i \in 1..Len(clauses) : \A k \in AnalysesOf(i) :
            IsErrorAnalysis(analyses[k]) =>
                LET r == report.all_clause_risks[i]
                    w10 == WeightTenths(clauses[i].clause_type)
                IN  /\ Times200(r.risk_score) = MinInt(1000, 75 * w10) * 10
                    /\ Len(r.contributing_factors) = 3
                    /\ r.contributing_factors[1].factor
                            = "Base Compliance Score"
                    /\ r.contributing_factors[2].factor = "Clause Type Weight"
                    /\ r.contributing_factors[3].factor = "Confidence Factor"
                    /\ r.risk_level = Classify(r.risk_score)

\* an error analysis on a data_protection clause: score 50, level medium,
\* where the record said high
C18_Witness ==
    /\ Returned
    /\ \E i \in 1..Len(clauses) : \E k \in AnalysesOf(i) :
        /\ IsErrorAnalysis(analyses[k])
        /\ clauses[i].clause_type = "data_protection"
        /\ report.all_clause_risks[i].risk_score = Int2Rat(50)
        /\ report.all_clause_risks[i].risk_level = "medium"
        /\ report.all_clause_risks[i].risk_level # analyses[k].risk_level

\* the clauses of a clause type, as places in all_clause_risks
PlacesOf(category) ==
    {i \in 1..Len(report.all_clause_risks) :
        report.all_clause_risks[i].clause_type = category}

(***************************************************************************)
(* C12: for every CategoryRisk, clause_count is the number of ClauseRisks  *)
(* of that clause type, clauses holds exactly those ClauseRisks,           *)
(* high_risk_clauses counts the high and critical ones among them and is   *)
(* at most clause_count; every ClauseRisk is in exactly one CategoryRisk.  *)
(***************************************************************************)
C12_CategoryMembership ==
    Returned =>
        LET all == report.all_clause_risks
            cats == report.category_risks
        IN  /\ \A c \in 1..Len(cats) :
                /\ cats[c].clause_count = Cardinality(PlacesOf(cats[c].category))
                /\ Len(cats[c].clauses) = cats[c].clause_count
                /\ Range(cats[c].clauses)
                        = {all[i] : i \in PlacesOf(cats[c].category)}
                /\ cats[c].high_risk_clauses = HighOrCritical(cats[c].clauses)
                /\ cats[c].high_risk_clauses <= cats[c].clause_count
            /\ \A i \in 1..Len(all) :
                Cardinality({c \in 1..Len(cats) :
                                all[i] \in Range(cats[c].clauses)}) = 1

\* two categories, one of them with high and not high clauses
C12_Witness ==
    /\ Returned
    /\ Len(report.category_risks) = 2
    /\ \E c \in 1..2 :
        /\ report.category_risks[c].clause_count >= 3
        /\ report.category_risks[c].high_risk_clauses >= 1
        /\ report.category_risks[c].high_risk_clauses
                < report.category_risks[c].clause_count

\* the place of the first clause of a clause type
FirstPlaceOf(category) ==
    CHOOSE i \in PlacesOf(category) : \A j \in PlacesOf(category) : i <= j

(***************************************************************************)
(* C13: category_risks is in descending order of category score, and       *)
(* categories of equal score are in the order in which their first clause  *)
(* came in the input.                                                      *)
(***************************************************************************)
C13_CategoriesSorted ==
    Returned =>
        LET cats == report.category_risks
        IN  \A c, d \in 1..Len(cats) :
                c < d =>
                    /\ RatLeq(cats[d].risk_score, cats[c].risk_score)
                    /\ cats[c].risk_score = cats[d].risk_score =>
                        FirstPlaceOf(cats[c].category)
                            < FirstPlaceOf(cats[d].category)

\* two categories of equal score, the first of them with two clauses or more
C13_Witness ==
    /\ Returned
    /\ Len(report.category_risks) = 2
    /\ report.category_risks[1].risk_score
            = report.category_risks[2].risk_score
    /\ report.category_risks[1].clause_count >= 2

\* the place in all_clause_risks of a ClauseRisk
PlaceOf(r) ==
    CHOOSE i \in 1..Len(report.all_clause_risks) :
        report.all_clause_risks[i] = r

(***************************************************************************)
(* C14: top_risks holds min(5, N) ClauseRisks of all_clause_risks, in      *)
(* descending order of score, equal scores in input order; no clause left  *)
(* out has a higher score than a clause in it.                             *)
(***************************************************************************)
C14_TopRisks ==
    Returned =>
        LET all == report.all_clause_risks
            top == report.top_risks
        IN  /\ Len(top) = MinInt(5, Len(all))
            /\ Range(top) \subseteq Range(all)
            /\ Cardinality(Range(top)) = Len(top)
            /\ \A s, t \in 1..Len(top) :
                s < t =>
                    /\ RatLeq(top[t].risk_score, top[s].risk_score)
                    /\ top[s].risk_score = top[t].risk_score =>
                        PlaceOf(top[s]) < PlaceOf(top[t])
            /\ \A i \in 1..Len(all) :
                all[i] \notin Range(top) =>
                    \A t \in 1..Len(top) :
                        RatLeq(all[i].risk_score, top[t].risk_score)

\* six clauses: one is left out, the first one is not among the top five
\* and top_risks has clauses of equal score
C14_Witness ==
    /\ Returned
    /\ Len(report.all_clause_risks) = 6
    /\ Len(report.top_risks) = 5
    /\ report.all_clause_risks[1] \notin Range(report.top_risks)
    /\ report.top_risks[4].risk_score = report.top_risks[5].risk_score
    /\ RatLess(report.top_risks[2].risk_score, report.top_risks[1].risk_score)

\* the matched regulations of all findings, findings in input order
AllMatched ==
    Flatten([k \in 1..Len(analyses) |-> analyses[k].matched_regulations])

\* the place in AllMatched where a regulation id occurs first
FirstMatch(id) ==
    CHOOSE i \in 1..Len(AllMatched) :
        /\ AllMatched[i].regulation_id = id
        /\ \A j \in 1..(i - 1) : AllMatched[j].regulation_id # id

(***************************************************************************)
(* C15: the citations hold every regulation id of the findings' matched    *)
(* regulations exactly once, each with the title, source and type of its   *)
(* first occurrence, in the order of the first occurrences when the        *)
(* findings are walked in input order.                                     *)
(***************************************************************************)
C15_Citations ==
    Returned =>
        LET cits == report.citations
            ids == {AllMatched[i].regulation_id : i \in 1..Len(AllMatched)}
        IN  /\ {cits[c].regulation_id : c \in 1..Len(cits)} = ids
            /\ Len(cits) = Cardinality(ids)
            /\ \A c \in 1..Len(cits) :
                LET first == AllMatched[FirstMatch(cits[c].regulation_id)]
                IN  /\ cits[c].title = first.title
                    /\ cits[c].source_url = first.source_url
                    /\ cits[c].regulation_type = first.regulation_type
                    /\ DOMAIN cits[c] = {"regulation_id", "title",
                                         "source_url", "regulation_type"}
            /\ \A c, d \in 1..Len(cits) :
                c < d => FirstMatch(cits[c].regulation_id)
                            < FirstMatch(cits[d].regulation_id)

\* a regulation matched by two findings under different titles, and a
\* second regulation that the second finding adds
C15_Witness ==
    /\ Returned
    /\ Len(analyses) = 2
    /\ Len(analyses[1].matched_regulations) >= 1
    /\ Len(analyses[2].matched_regulations) = 2
    /\ Len(report.citations) = 2
    /\ \E i \in 1..2 :
        /\ analyses[1].matched_regulations[1].regulation_id
                = analyses[2].matched_regulations[i].regulation_id
        /\ analyses[1].matched_regulations[1].title
                # analyses[2].matched_regulations[i].title
    /\ report.citations[2].regulation_id
            = analyses[2].matched_regulations[2].regulation_id

\* |x - y| <= k/1000 for rationals x, y
Within(x, y, k) ==
    LET diff == RatSub(x, y)
    IN  1000 * Abs(diff.n) <= k * diff.d

(***************************************************************************)
(* C16: for every non-empty input the scoring breakdown agrees with the    *)
(* score: the recorded density penalty is 20 * (H/N) to two decimals,      *)
(* exactly 20 when all clauses are high or critical; its high_risk_count   *)
(* is the report's high_risk_clause_count; and contribution + max risk     *)
(* penalty + density penalty is the overall score up to the rounding of    *)
(* the three recorded terms (0.005 each).                                  *)
(***************************************************************************)
C16_BreakdownConsistent ==
    (Reported /\ clauses # <<>>) =>
        LET b == report.scoring_breakdown
            N == Len(report.all_clause_risks)
            H == HighOrCritical(report.all_clause_risks)
            recorded ==
                RatAdd(RatAdd(b.weighted_average.contribution,
                              b.max_risk_penalty.penalty),
                       b.high_risk_density.penalty)
        IN  /\ Within(b.high_risk_density.penalty, Rat(20 * H, N), 5)
            /\ H = N => b.high_risk_density.penalty = Int2Rat(20)
            /\ b.high_risk_density.high_risk_count
                    = report.high_risk_clause_count
            /\ b.high_risk_density.total_clauses = N
            /\ Within(recorded, report.overall_risk_score, 15)

\* every ClauseRisk of a non-empty report is at one of the levels
AllAtLevels(levels) ==
    /\ Reported
    /\ report.all_clause_risks # <<>>
    /\ \A i \in 1..Len(report.all_clause_risks) :
        report.all_clause_risks[i].risk_level \in levels

(***************************************************************************)
(* C19: when every ClauseRisk is at level high or critical, the overall    *)
(* risk score is at least 70 and the overall level is high or critical.    *)
(***************************************************************************)
C19_AllHighOverallHigh ==
    AllAtLevels({"high", "critical"}) =>
        /\ AtLeast(report.overall_risk_score, 70)
        /\ report.overall_risk_level \in {"high", "critical"}

(***************************************************************************)
(* C20: when every ClauseRisk is at level low or minimal, the overall risk *)
(* score is at most 30 and the overall level is "low".                     *)
(***************************************************************************)
C20_AllLowOverallLow ==
    AllAtLevels({"low", "minimal"}) =>
        /\ AtMost(report.overall_risk_score, 30)
        /\ report.overall_risk_level = "low"

\* every clause risk score is in [0, 100]
ClauseScoresInRange ==
    \A i \in 1..Len(report.all_clause_risks) :
        /\ AtLeast(report.all_clause_risks[i].risk_score, 0)
        /\ AtMost(report.all_clause_risks[i].risk_score, 100)

(***************************************************************************)
(* C27: when all clause risk scores are in [0,100], the value              *)
(* 0.6*A + max-risk penalty + density penalty is in [0,100] before the     *)
(* clamp and at most 80: the overall score is that value and never above   *)
(* 80.  Stated over the common denominator 2000*W*N as C1 is.              *)
(***************************************************************************)
C27_RawScoreAtMost80 ==
    (Reported /\ clauses # <<>> /\ ClauseScoresInRange) =>
        LET risks == report.all_clause_risks
            N == Len(risks)
            W == SumInt([i \in 1..N |-> Weight10(risks[i])])
            SW == SumInt([i \in 1..N |->
                            Times200(risks[i].risk_score) * Weight10(risks[i])])
            M == MaxInt([i \in 1..N |-> Times200(risks[i].risk_score)])
            D == 2000 * W * N
            excess == IF M * W > SW THEN M * W - SW ELSE 0
            raw == 6 * N * SW + 3 * N * excess
                      + 40000 * HighOrCritical(risks) * W
            overall == report.overall_risk_score
        IN  /\ raw >= 0
            /\ raw <= 80 * D
            /\ overall.n * (D \div overall.d) = raw
            /\ AtMost(overall, 80)

\* all clauses at score 100: the overall score is 80
C27_Witness ==
    /\ Reported
    /\ Len(clauses) = 2
    /\ ClauseScoresInRange
    /\ report.overall_risk_score = Int2Rat(80)

\* how severe a level is
Severity(level) ==
    CASE level = "critical" -> 4
      [] level = "high" -> 3
      [] level = "medium" -> 2
      [] level = "low" -> 1
      [] level = "minimal" -> 0

(***************************************************************************)
(* C28: for a non-empty input with all clause risk scores in [0,100] the   *)
(* overall score is at most the highest clause score, and the overall      *)
(* level is at most as severe as the most severe clause level.             *)
(***************************************************************************)
C28_OverallAtMostMax ==
    (Reported /\ clauses # <<>> /\ ClauseScoresInRange) =>
        \E i \in 1..Len(report.all_clause_risks) :
            /\ RatLeq(report.overall_risk_score,
                      report.all_clause_risks[i].risk_score)
            /\ Severity(report.overall_risk_level)
                    <= Severity(report.all_clause_risks[i].risk_level)

\* both penalties act and the overall score stays below the highest clause
\* score, at a less severe level
C28_Witness ==
    /\ Reported
    /\ Len(clauses) = 2
    /\ ClauseScoresInRange
    /\ report.scoring_breakdown.max_risk_penalty.penalty.n > 0
    /\ report.scoring_breakdown.high_risk_density.penalty.n > 0
    /\ \E i \in 1..2 :
        /\ report.all_clause_risks[i].risk_level = "critical"
        /\ report.overall_risk_level = "high"

(***************************************************************************)
(* C29: every category score is the plain mean of the clause risk scores   *)
(* of the category, whatever the weight of the category, and so lies       *)
(* between the lowest and the highest of them.                             *)
(***************************************************************************)
C29_CategoryPlainMean ==
    Reported =>
        \A c \in 1..Len(report.category_risks) :
            LET cat == report.category_risks[c]
                n == Len(cat.clauses)
            IN  /\ cat.risk_score.n * 200 * n
                    = cat.risk_score.d
                        * SumInt([j \in 1..n |->
                                    Times200(cat.clauses[j].risk_score)])
                /\ \E j \in 1..n :
                    RatLeq(cat.clauses[j].risk_score, cat.risk_score)
                /\ \E j \in 1..n :
                    RatLeq(cat.risk_score, cat.clauses[j].risk_score)

\* two clauses of different score in a category of weight 1.5
C29_Witness ==
    /\ Reported
    /\ \E c \in 1..Len(report.category_risks) :
        LET cat == report.category_risks[c]
        IN  /\ cat.category = "data_protection"
            /\ cat.clause_count = 2
            /\ RatLess(cat.clauses[1].risk_score, cat.risk_score)
            /\ RatLess(cat.risk_score, cat.clauses[2].risk_score)

(***************************************************************************)
(* C30: all_clause_risks has one ClauseRisk per input clause, in input     *)
(* order and with the clause ids, and total_clauses_analyzed is the number *)
(* of clauses, however many findings there are: a clause no finding names  *)
(* gets the default score whatever other ids the findings carry, and a     *)
(* clause several findings name is scored from the last of them.           *)
(***************************************************************************)
C30_OneRiskPerClause ==
    Reported =>
        /\ Len(report.all_clause_risks) = Len(clauses)
        /\ report.total_clauses_analyzed = Len(clauses)
        /\ report.high_risk_clause_count + report.medium_risk_clause_count
                + report.low_risk_clause_count = Len(clauses)
        /\ \A i \in 1..Len(clauses) :
            LET r == report.all_clause_risks[i]
                hits == AnalysesOf(i)
            IN  /\ r.clause_id = clauses[i].clause_id
                /\ r.clause_type = clauses[i].clause_type
                /\ hits = {} =>
                    /\ r.risk_score = Int2Rat(50)
                    /\ r.contributing_factors[1].factor = "Missing Analysis"
                /\ hits # {} =>
                    LET last == analyses[MaxInt([k \in hits |-> k])]
                    IN  /\ r.contributing_factors[1].value = last.risk_score
                        /\ Times200(r.risk_score)
                            = MinInt(1000, last.risk_score.n
                                            * Weight10(clauses[i]))
                                * (10 + Times10(last.confidence))

\* a finding for an id no clause has, and a clause named by two findings
\* of different score
C30_Witness ==
    /\ Reported
    /\ Len(clauses) = 2
    /\ \E k \in 1..Len(analyses) : analyses[k].clause_id = 3
    /\ \E j, k \in 1..Len(analyses) :
        /\ j < k
        /\ analyses[j].clause_id = 1
        /\ analyses[k].clause_id = 1
        /\ analyses[j].risk_score = Int2Rat(75)
        /\ analyses[k].risk_score = Int2Rat(15)
        /\ report.all_clause_risks[1].risk_level = "minimal"
    /\ AnalysesOf(2) = {}

(***************************************************************************)
(* C21: while analyze_clauses runs, at no point are more than 5            *)
(* analyze_clause calls in flight, however many clauses there are.         *)
(***************************************************************************)
C21_AtMostFiveInFlight == Cardinality(rag.in_flight) <= 5

\* six clauses: five calls in flight while the sixth clause waits for the
\* second batch
C21_Witness ==
    /\ Len(clauses) = 6
    /\ rag.pc = "gathering"
    /\ rag.in_flight = 1..5
    /\ rag.all_analyses = <<>>

(***************************************************************************)
(* C22: the list analyze_clauses returns has one finding per clause, the   *)
(* i-th with the id of the i-th clause, whatever the order in which the    *)
(* calls ended; a clause whose call raised has the error record (score 75, *)
(* confidence 0, risk_level high) in its place, every other clause the     *)
(* analysis its call returned.                                             *)
(***************************************************************************)
C22_CompleteOrderedFindings ==
    rag.pc = "returned" =>
        /\ Len(analyses) = Len(clauses)
        /\ \A i \in 1..Len(clauses) :
            /\ analyses[i].clause_id = clauses[i].clause_id
            /\ i \in rag.raised =>
                /\ analyses[i].risk_score = Int2Rat(75)
                /\ analyses[i].confidence = Int2Rat(0)
                /\ analyses[i].risk_level = "high"
            /\ i \notin rag.raised =>
                analyses[i].recommendations # << "Manual review required" >>

\* six clauses, the calls of the second and of the sixth raised, and the
\* risk report has been calculated from the list
C22_Witness ==
    /\ Len(clauses) = 6
    /\ rag.pc = "returned"
    /\ rag.raised = {2, 6}
    /\ Reported
    /\ report.total_clauses_analyzed = 6

\* the requests whose analysis pipeline for document d is running
PipelinesOf(d) ==
    {r \in RequestIds :
        /\ requests[r] # None
        /\ requests[r].pc = "pipeline"
        /\ requests[r].doc = d}

\* request r arrives in this step, as a request of this kind on document d
Arrives(r, kind, d) ==
    /\ requests[r] = None
    /\ requests'[r] # None
    /\ requests'[r].kind = kind
    /\ requests'[r].doc = d

(***************************************************************************)
(* C23: however concurrent POST /analyze requests on a document            *)
(* interleave, at most one analysis pipeline runs for the document at a    *)
(* time; a request that arrives while the status is PROCESSING is answered *)
(* 409, starts no pipeline and leaves the store as it is; a request on a   *)
(* COMPLETED document with a stored report is answered with that report    *)
(* and starts no pipeline.                                                 *)
(***************************************************************************)
C23_OnePipelinePerDocument ==
    [][/\ \A d \in DocIds : Cardinality(PipelinesOf(d)') <= 1
       /\ \A r \in RequestIds : \A d \in DocIds :
            (Arrives(r, "analyze", d) /\ store[d] # None) =>
                /\ store[d].status = PROCESSING =>
                    /\ requests'[r].pc = "done"
                    /\ requests'[r].status_code = 409
                    /\ ~requests'[r].ran
                    /\ store' = store
                /\ (store[d].status = COMPLETED
                        /\ store[d].risk_report # None) =>
                    /\ requests'[r].pc = "done"
                    /\ requests'[r].status_code = 200
                    /\ requests'[r].body = store[d].risk_report
                    /\ ~requests'[r].ran
                    /\ store' = store]_vars

\* three requests on one document: the first ran the pipeline, the second
\* came while it ran and got 409, the third got the stored report
C23_Witness ==
    \E d \in DocIds :
        /\ store[d] # None
        /\ store[d].status = COMPLETED
        /\ \A r \in 1..3 :
            /\ requests[r] # None
            /\ requests[r].kind = "analyze"
            /\ requests[r].doc = d
        /\ requests[1].status_code = 200
        /\ requests[1].ran
        /\ requests[2].status_code = 409
        /\ requests[3].status_code = 200
        /\ ~requests[3].ran
        /\ requests[3].body = store[d].risk_report

\* every COMPLETED document of the store has a risk report
CompletedHasReport ==
    \A d \in DocIds :
        (store[d] # None /\ store[d].status = COMPLETED) =>
            store[d].risk_report # None

(***************************************************************************)
(* C25: in every state of the store a COMPLETED document has a risk        *)
(* report, and GET /risk never answers 500 ReportNotFound: it answers 404  *)
(* for an unknown id, 400 for a document that is PENDING, PROCESSING or    *)
(* FAILED, and the stored report for a COMPLETED document and for no       *)
(* other.                                                                  *)
(***************************************************************************)
C25_CompletedHasReport ==
    [][/\ CompletedHasReport'
       /\ \A r \in RequestIds : \A d \in DocIds :
            Arrives(r, "risk", d) =>
                /\ requests'[r].body # HTTPException("ReportNotFound")
                /\ requests'[r].status_code \in {200, 400, 404}
                /\ requests'[r].status_code = 404 <=> store[d] = None
                /\ requests'[r].status_code = 400 <=>
                    /\ store[d] # None
                    /\ store[d].status \in {PENDING, PROCESSING, FAILED}
                /\ requests'[r].status_code = 200 =>
                    /\ store[d].status = COMPLETED
                    /\ store[d].risk_report # None
                    /\ requests'[r].body = store[d].risk_report
                /\ store' = store]_vars

\* a document was analysed and GET /risk answered with its report; GET
\* /risk on the other document, uploaded and not analysed, answered 400
C25_Witness ==
    \E d \in DocIds : \E e \in DocIds \ {d} :
        /\ store[d] # None
        /\ store[d].status = COMPLETED
        /\ store[e] # None
        /\ store[e].status = PENDING
        /\ \A r \in 1..3 : requests[r] # None
        /\ requests[1].kind = "analyze"
        /\ requests[1].ran
        /\ requests[2].kind = "risk"
        /\ requests[2].doc = d
        /\ requests[2].status_code = 200
        /\ requests[2].body = store[d].risk_report
        /\ requests[3].kind = "risk"
        /\ requests[3].doc = e
        /\ requests[3].status_code = 400

(***************************************************************************)
(* C26: in every state of the store a COMPLETED document has               *)
(* error_message None, also when its analysis failed first and succeeded   *)
(* when POST /analyze was called again.                                    *)
(***************************************************************************)
C26_CompletedNoErrorMessage ==
    \A d \in DocIds :
        (store[d] # None /\ store[d].status = COMPLETED) =>
            store[d].error_message = None

(***************************************************************************)
(* C24: a document whose status has become PROCESSING eventually is        *)
(* COMPLETED or FAILED, whatever the outcome of the analysis: success, an  *)
(* OCR error, another failure, or the request being abandoned while it     *)
(* awaits the pipeline.                                                    *)
(***************************************************************************)
C24_ProcessingEnds ==
    \A d \in DocIds :
        (store[d] # None /\ store[d].status = PROCESSING)
            ~> (store[d] # None /\ store[d].status \in {COMPLETED, FAILED})

====
